---- MODULE Spec2Model ----
(***************************************************************************)
(* Model of the NEXUS validator (src/unnamed/part_000).                    *)
(*                                                                         *)
(* A document text is a sequence of one-character strings.  Offsets are    *)
(* 0-based as in the source: the character at offset i is text[i + 1].     *)
(* A Position is [line, character], a Range is [start, end], a Diagnostic  *)
(* is [range, message, severity]; a message is its template with the       *)
(* interpolated numbers as args.                                           *)
(***************************************************************************)
EXTENDS Integers, Sequences, FiniteSets, TLC

VARIABLES
    text,              \* document -> current text (document.getText())
    collection,        \* the DiagnosticCollection: document -> published entry
    activeTextEditor,  \* vscode.window.activeTextEditor (a document or NoEditor)
    pass,              \* the last validateNexus call: document, outcome, list
    vc,                \* validateComments run stepwise: text, i, stack, inQuote, ...
    nexusData,         \* the Matrix Model returned by NexusParser.parse
    sc                 \* Sequence._clean run stepwise: str, i, clean, stack, inQuote

vars == <<text, collection, activeTextEditor, pass, vc, nexusData, sc>>

----------------------------------------------------------------------------
(* Bounds of the explored inputs *)

MaxScanLen == 4     \* balance scan: every text up to this length
MaxRows == 2        \* validation pass: MATRIX blocks of up to this many rows
MaxHostLen == 3     \* host events: documents of up to this many characters
MaxCleanLen == 4    \* Sequence._clean: every raw string up to this length

----------------------------------------------------------------------------
(* Character classes of the regular expressions *)

Lower == <<"a","b","c","d","e","f","g","h","i","j","k","l","m",
           "n","o","p","q","r","s","t","u","v","w","x","y","z">>
Upper == <<"A","B","C","D","E","F","G","H","I","J","K","L","M",
           "N","O","P","Q","R","S","T","U","V","W","X","Y","Z">>
Digits == <<"0","1","2","3","4","5","6","7","8","9">>

Elems(s) == {s[k] : k \in 1..Len(s)}

\* \s
IsSpace(c) == c \in {" ", "\t", "\n", "\r"}

\* \d
IsDigit(c) == c \in Elems(Digits)

\* \w, the class behind \b
IsWord(c) == c \in Elems(Lower) \cup Elems(Upper) \cup Elems(Digits) \cup {"_"}

\* the /i flag: characters are compared after case folding
ToUpper(c) ==
    IF c \in Elems(Lower)
    THEN Upper[CHOOSE k \in 1..Len(Lower) : Lower[k] = c]
    ELSE c

Min(S) == CHOOSE x \in S : \A y \in S : x <= y
Max(S) == CHOOSE x \in S : \A y \in S : x >= y

\* the element of a one-element set; One({F(v) : v \in {e}}) is F(e) with e
\* evaluated once, whatever the number of uses of v in F
One(S) == CHOOSE x \in S : TRUE

\* str.substring(from, to) with 0-based offsets
Substring(str, from, to) == SubSeq(str, from + 1, to)

\* offset reached by a greedy \s* started at offset i
SkipSpaces(str, i) ==
    CHOOSE j \in i..Len(str) :
        /\ j = Len(str) \/ ~IsSpace(str[j + 1])
        /\ \A k \in (i + 1)..j : IsSpace(str[k])

\* offset reached by a greedy \S* started at offset i
SkipNonSpaces(str, i) ==
    CHOOSE j \in i..Len(str) :
        /\ j = Len(str) \/ IsSpace(str[j + 1])
        /\ \A k \in (i + 1)..j : ~IsSpace(str[k])

\* offset reached by a greedy \d* started at offset i
SkipDigits(str, i) ==
    CHOOSE j \in i..Len(str) :
        /\ j = Len(str) \/ ~IsDigit(str[j + 1])
        /\ \A k \in (i + 1)..j : IsDigit(str[k])

\* \b at offset i
WordBoundary(str, i) ==
    LET before == i > 0 /\ IsWord(str[i])
        after == i < Len(str) /\ IsWord(str[i + 1])
    IN  before # after

\* a literal keyword of a /i pattern at offset i
KeywordAt(str, i, kw) ==
    /\ i + Len(kw) <= Len(str)
    /\ \A k \in 1..Len(kw) : ToUpper(str[i + k]) = kw[k]

\* String.prototype.indexOf (the needle occurs in the haystack)
IndexOf(hay, needle) ==
    CHOOSE k \in 0..(Len(hay) - Len(needle)) :
        /\ Substring(hay, k, k + Len(needle)) = needle
        /\ \A j \in 0..(k - 1) : Substring(hay, j, j + Len(needle)) # needle

\* String.prototype.trim
Trim(str) ==
    One({Substring(str, from, to) :
            from \in {SkipSpaces(str, 0)},
            to \in {j \in 0..Len(str) :
                      /\ j = 0 \/ ~IsSpace(str[j])
                      /\ \A k \in (j + 1)..Len(str) : IsSpace(str[k])}})

RECURSIVE ParseInt(_)
\* parseInt of a run of decimal digits
ParseInt(digits) ==
    IF digits = <<>> THEN 0
    ELSE 10 * ParseInt(SubSeq(digits, 1, Len(digits) - 1))
         + ((CHOOSE k \in 1..10 : Digits[k] = digits[Len(digits)]) - 1)

----------------------------------------------------------------------------
(* The host's text document: positions and lines (line breaks are "\n") *)

Position(line, character) == [line |-> line, character |-> character]

Range(start, end) == [start |-> start, end |-> end]

\* offsets of the line breaks before offset
BreaksBefore(str, offset) == {k \in 1..offset : str[k] = "\n"}

\* document.positionAt(offset)
positionAt(str, offset) ==
    One({Position(Cardinality(breaks),
                  off - (IF breaks = {} THEN 0 ELSE Max(breaks))) :
            off \in {IF offset > Len(str) THEN Len(str) ELSE offset},
            breaks \in {BreaksBefore(str, Min({offset, Len(str)}))}})

\* offset at which line n starts
LineStart(str, n) ==
    IF n = 0 THEN 0
    ELSE CHOOSE k \in 1..Len(str) :
            str[k] = "\n" /\ Cardinality(BreaksBefore(str, k)) = n

\* document.lineAt(n): the line's text without its line break, and its range
lineAt(str, n) ==
    One({[text |-> Substring(str, from, to),
          range |-> Range(Position(n, 0), Position(n, to - from))] :
            from \in {LineStart(str, n)},
            to \in {j \in 0..Len(str) :
                      /\ j = Len(str) \/ str[j + 1] = "\n"
                      /\ Cardinality(BreaksBefore(str, j)) = n}})

\* position.translate(lineDelta, characterDelta), before the constructor's check
translate(pos, lineDelta, characterDelta) ==
    Position(pos.line + lineDelta, pos.character + characterDelta)

\* new Position(line, character) throws on a negative coordinate
IllegalPosition(pos) == pos.line < 0 \/ pos.character < 0

Diagnostic(range, template, args, severity) ==
    [range |-> range,
     message |-> [template |-> template, args |-> args],
     severity |-> severity]

----------------------------------------------------------------------------
(* validateComments: the whole-document bracket and quote balance scan *)

UnexpectedClosing == "Unexpected closing bracket ']'"
UnclosedQuote == "Unclosed single quote. This may hide other errors."
UnclosedComment == "Unclosed comment block '['"

\* the scan's locals before the first character
ScanStart(str) ==
    [text |-> str, i |-> 0, stack |-> <<>>, inQuote |-> FALSE,
     diagnostics |-> <<>>, pc |-> "loop"]

\* the loop iteration without `if (inQuote) continue`: a bracket counts
\* wherever it stands
ScanCharNoQuotes(s) ==
    LET str == s.text
        i == s.i
        char == str[i + 1]
        pos == positionAt(str, i)
    IN  IF char = "'"
        THEN IF s.inQuote /\ i + 1 < Len(str) /\ str[i + 2] = "'"
             THEN [s EXCEPT !.i = i + 2]
             ELSE [s EXCEPT !.inQuote = ~s.inQuote, !.i = i + 1]
        ELSE IF char = "["
        THEN [s EXCEPT !.stack = Append(s.stack, i), !.i = i + 1]
        ELSE IF char = "]"
        THEN IF Len(s.stack) = 0
             THEN [s EXCEPT
                     !.diagnostics = Append(s.diagnostics,
                         Diagnostic(Range(pos, translate(pos, 0, 1)),
                                    UnexpectedClosing, <<>>, "Error")),
                     !.i = i + 1]
             ELSE [s EXCEPT !.stack = SubSeq(s.stack, 1, Len(s.stack) - 1),
                            !.i = i + 1]
        ELSE [s EXCEPT !.i = i + 1]

\* the loop iteration without the report of a stray ']'
ScanCharSilent(s) ==
    LET str == s.text
        i == s.i
        char == str[i + 1]
    IN  IF char = "'"
        THEN IF s.inQuote /\ i + 1 < Len(str) /\ str[i + 2] = "'"
             THEN [s EXCEPT !.i = i + 2]
             ELSE [s EXCEPT !.inQuote = ~s.inQuote, !.i = i + 1]
        ELSE IF s.inQuote
        THEN [s EXCEPT !.i = i + 1]
        ELSE IF char = "["
        THEN [s EXCEPT !.stack = Append(s.stack, i), !.i = i + 1]
        ELSE IF char = "]"
        THEN [s EXCEPT !.stack = SubSeq(s.stack, 1, Len(s.stack) - 1),
                       !.i = i + 1]
        ELSE [s EXCEPT !.i = i + 1]

\* one iteration of the for loop, at the character of offset s.i
ScanChar(s) ==
    LET str == s.text
        i == s.i
        char == str[i + 1]
        pos == positionAt(str, i)
    IN  IF char = "'"
        THEN IF s.inQuote /\ i + 1 < Len(str) /\ str[i + 2] = "'"
             THEN [s EXCEPT !.i = i + 2]
             ELSE [s EXCEPT !.inQuote = ~s.inQuote, !.i = i + 1]
        ELSE IF s.inQuote
        THEN [s EXCEPT !.i = i + 1]
        ELSE IF char = "["
        THEN [s EXCEPT !.stack = Append(s.stack, i), !.i = i + 1]
        ELSE IF char = "]"
        THEN IF Len(s.stack) = 0
             THEN [s EXCEPT
                     !.diagnostics = Append(s.diagnostics,
                         Diagnostic(Range(pos, translate(pos, 0, 1)),
                                    UnexpectedClosing, <<>>, "Error")),
                     !.i = i + 1]
             ELSE [s EXCEPT !.stack = SubSeq(s.stack, 1, Len(s.stack) - 1),
                            !.i = i + 1]
        ELSE [s EXCEPT !.i = i + 1]

\* after the loop: the unclosed-quote report, whose range is built by
\* lastPos.translate(0, -1); an illegal position aborts the function
QuoteCheck(s) ==
    LET lastPos == positionAt(s.text, Len(s.text))
        before == translate(lastPos, 0, -1)
    IN  IF ~s.inQuote
        THEN [s EXCEPT !.pc = "unclosed"]
        ELSE IF IllegalPosition(before)
        THEN [s EXCEPT !.pc = "threw"]
        ELSE [s EXCEPT
                !.diagnostics = Append(s.diagnostics,
                    Diagnostic(Range(before, lastPos),
                               UnclosedQuote, <<>>, "Error")),
                !.pc = "unclosed"]

\* one squiggle for every '[' left on the stack
UnclosedReport(s) ==
    LET unclosed ==
            [k \in 1..Len(s.stack) |->
                LET pos == positionAt(s.text, s.stack[k])
                IN  Diagnostic(Range(pos, translate(pos, 0, 1)),
                               UnclosedComment, <<>>, "Error")]
    IN  [s EXCEPT !.diagnostics = s.diagnostics \o unclosed, !.pc = "done"]

RECURSIVE ScanLoop(_)
ScanLoop(s) ==
    IF s.i < Len(s.text)
    THEN One({ScanLoop(next) : next \in {ScanChar(s)}})
    ELSE s

\* validateComments(document, diagnostics, outputChannel) on an empty list:
\* pc is "done" with the diagnostics pushed, or "threw"
validateComments(str) ==
    One({IF checked.pc = "threw" THEN checked ELSE UnclosedReport(checked) :
            checked \in {QuoteCheck(scanned) :
                            scanned \in {ScanLoop(ScanStart(str))}}})

----------------------------------------------------------------------------
(* Sequence, Taxon, Nexus: the Matrix Model.  A Nexus is the sequence of   *)
(* its taxa in Map insertion order; a taxon is [name, bases, lineRange].   *)

\* the locals of Sequence._clean before the first character
CleanStart(str) ==
    [str |-> str, i |-> 0, clean |-> <<>>, stack |-> 0, inQuote |-> FALSE,
     pc |-> "loop"]

\* the loop iteration with quotes handled outside comments only: a quote met
\* at a depth greater than 0 is dropped like any other comment character
CleanCharQuoteBlind(c) ==
    LET str == c.str
        i == c.i
        char == str[i + 1]
    IN  IF char = "'" /\ c.stack = 0
        THEN IF c.inQuote /\ i + 1 < Len(str) /\ str[i + 2] = "'"
             THEN [c EXCEPT !.i = i + 2, !.clean = Append(@, "'")]
             ELSE [c EXCEPT !.inQuote = ~c.inQuote,
                            !.clean = Append(@, "'"),
                            !.i = i + 1]
        ELSE IF ~c.inQuote /\ char = "["
        THEN [c EXCEPT !.stack = @ + 1, !.i = i + 1]
        ELSE IF ~c.inQuote /\ char = "]"
        THEN [c EXCEPT !.stack = IF @ > 0 THEN @ - 1 ELSE @, !.i = i + 1]
        ELSE [c EXCEPT
                !.clean = IF c.stack = 0 THEN Append(@, char) ELSE @,
                !.i = i + 1]

\* the loop iteration without nesting, as the regular expression /\[.*?\]/g
\* it replaced: the first ']' ends the comment
CleanCharFlat(c) ==
    LET str == c.str
        i == c.i
        char == str[i + 1]
    IN  IF char = "'"
        THEN IF c.inQuote /\ i + 1 < Len(str) /\ str[i + 2] = "'"
             THEN [c EXCEPT
                     !.i = i + 2,
                     !.clean = IF c.stack = 0 THEN Append(@, "'") ELSE @]
             ELSE [c EXCEPT
                     !.inQuote = ~c.inQuote,
                     !.clean = IF c.stack = 0 THEN Append(@, "'") ELSE @,
                     !.i = i + 1]
        ELSE IF ~c.inQuote /\ char = "["
        THEN [c EXCEPT !.stack = 1, !.i = i + 1]
        ELSE IF ~c.inQuote /\ char = "]"
        THEN [c EXCEPT !.stack = 0, !.i = i + 1]
        ELSE [c EXCEPT
                !.clean = IF c.stack = 0 THEN Append(@, char) ELSE @,
                !.i = i + 1]

\* the loop iteration without the escape: every quote toggles the flag
CleanCharToggle(c) ==
    LET str == c.str
        i == c.i
        char == str[i + 1]
    IN  IF char = "'"
        THEN [c EXCEPT
                !.inQuote = ~c.inQuote,
                !.clean = IF c.stack = 0 THEN Append(@, "'") ELSE @,
                !.i = i + 1]
        ELSE IF ~c.inQuote /\ char = "["
        THEN [c EXCEPT !.stack = @ + 1, !.i = i + 1]
        ELSE IF ~c.inQuote /\ char = "]"
        THEN [c EXCEPT !.stack = IF @ > 0 THEN @ - 1 ELSE @, !.i = i + 1]
        ELSE [c EXCEPT
                !.clean = IF c.stack = 0 THEN Append(@, char) ELSE @,
                !.i = i + 1]

\* one iteration of the for loop of Sequence._clean
CleanChar(c) ==
    LET str == c.str
        i == c.i
        char == str[i + 1]
    IN  IF char = "'"
        THEN IF c.inQuote /\ i + 1 < Len(str) /\ str[i + 2] = "'"
             THEN [c EXCEPT
                     !.i = i + 2,
                     !.clean = IF c.stack = 0 THEN Append(@, "'") ELSE @]
             ELSE [c EXCEPT
                     !.inQuote = ~c.inQuote,
                     !.clean = IF c.stack = 0 THEN Append(@, "'") ELSE @,
                     !.i = i + 1]
        ELSE IF ~c.inQuote /\ char = "["
        THEN [c EXCEPT !.stack = @ + 1, !.i = i + 1]
        ELSE IF ~c.inQuote /\ char = "]"
        THEN [c EXCEPT !.stack = IF @ > 0 THEN @ - 1 ELSE @, !.i = i + 1]
        ELSE [c EXCEPT
                !.clean = IF c.stack = 0 THEN Append(@, char) ELSE @,
                !.i = i + 1]

RECURSIVE CleanLoop(_)
CleanLoop(c) ==
    IF c.i < Len(c.str)
    THEN One({CleanLoop(next) : next \in {CleanChar(c)}})
    ELSE c

\* clean.replace(/\s/g, '')
StripSpaces(str) == SelectSeq(str, LAMBDA ch : ~IsSpace(ch))

\* after the loop: return clean.replace(/\s/g, '')
CleanEnd(c) == [c EXCEPT !.clean = StripSpaces(@), !.pc = "done"]

\* Sequence._clean(str)
_clean(str) == CleanEnd(CleanLoop(CleanStart(str))).clean

\* new Taxon(name, new Sequence(rawSeq), lineRange)
Taxon(name, rawSeq, lineRange) ==
    [name |-> name, bases |-> _clean(rawSeq), lineRange |-> lineRange]

\* addTaxon moving the taxon's range to the row that appended to it
addTaxonMoveRange(nexus, taxon) ==
    IF \E k \in 1..Len(nexus) : nexus[k].name = taxon.name
    THEN LET k == CHOOSE j \in 1..Len(nexus) : nexus[j].name = taxon.name
         IN  [nexus EXCEPT ![k].bases = @ \o taxon.bases,
                           ![k].lineRange = taxon.lineRange]
    ELSE Append(nexus, taxon)

\* addTaxon putting the later row in front of the earlier ones
addTaxonPrepend(nexus, taxon) ==
    IF \E k \in 1..Len(nexus) : nexus[k].name = taxon.name
    THEN LET k == CHOOSE j \in 1..Len(nexus) : nexus[j].name = taxon.name
         IN  [nexus EXCEPT ![k].bases = taxon.bases \o @]
    ELSE Append(nexus, taxon)

\* Nexus.addTaxon(taxon)
addTaxon(nexus, taxon) ==
    IF \E k \in 1..Len(nexus) : nexus[k].name = taxon.name
    THEN LET k == CHOOSE j \in 1..Len(nexus) : nexus[j].name = taxon.name
         IN  [nexus EXCEPT ![k].bases = @ \o taxon.bases]
    ELSE Append(nexus, taxon)

\* Nexus.ntax
ntax(nexus) == Len(nexus)

\* Nexus.maxSequenceLength
maxSequenceLength(nexus) ==
    IF nexus = <<>> THEN 0
    ELSE Max({Len(nexus[k].bases) : k \in 1..Len(nexus)})

----------------------------------------------------------------------------
(* NexusParser.parse *)

NoMatch == [found |-> FALSE]

kwMATRIX == <<"M","A","T","R","I","X">>

\* /\bMATRIX\b\s*([\s\S]*?)\s*;/i tried at offset i: the greedy \s* ends at
\* from, the lazy group stops where only white space is left before the
\* first ';'
MatrixMatchAt(str, i) ==
    IF /\ WordBoundary(str, i)
       /\ KeywordAt(str, i, kwMATRIX)
       /\ WordBoundary(str, i + Len(kwMATRIX))
       /\ \E q \in (i + Len(kwMATRIX) + 1)..Len(str) : str[q] = ";"
    THEN One({[found |-> TRUE, index |-> i,
               all |-> Substring(str, i, semi + 1),
               body |-> Substring(str, from,
                            CHOOSE p \in from..semi :
                                /\ \A k \in (p + 1)..semi : IsSpace(str[k])
                                /\ p = from \/ ~IsSpace(str[p]))] :
                from \in {SkipSpaces(str, i + Len(kwMATRIX))},
                semi \in {q \in (i + Len(kwMATRIX))..(Len(str) - 1) :
                            /\ str[q + 1] = ";"
                            /\ \A k \in (i + Len(kwMATRIX) + 1)..q :
                                    str[k] # ";"}})
    ELSE NoMatch

\* regexp.exec(text): the leftmost of the matches found at the offsets
Leftmost(matches) ==
    IF matches = {} THEN NoMatch
    ELSE CHOOSE m \in matches : \A other \in matches : m.index <= other.index

\* matrixRegex.exec(text)
MatrixExec(str) ==
    One({Leftmost({m \in all : m.found}) :
            all \in {{MatrixMatchAt(str, i) : i \in 0..Len(str)}}})

\* /^\s*('([^']+)'|(\S+))\s+(.*)$/ on one line: the quoted alternative is
\* tried first, the bare token second; both need white space after the name
RowExec(line) ==
    One({IF /\ from < Len(line)
            /\ line[from + 1] = "'"
            /\ closing < Len(line)
            /\ closing > from + 1
            /\ closing + 1 < Len(line)
            /\ IsSpace(line[closing + 2])
         THEN [found |-> TRUE,
               name |-> Substring(line, from + 1, closing),
               rawSeq |-> Substring(line, SkipSpaces(line, closing + 1),
                                    Len(line))]
         ELSE IF from < Len(line) /\ tokenEnd < Len(line)
         THEN [found |-> TRUE,
               name |-> Substring(line, from, tokenEnd),
               rawSeq |-> Substring(line, SkipSpaces(line, tokenEnd),
                                    Len(line))]
         ELSE NoMatch :
            from \in {SkipSpaces(line, 0)},
            \* the first quote after the one at from, or Len(line) without one
            closing \in {q \in 0..Len(line) :
                            /\ q > SkipSpaces(line, 0) \/ q = Len(line)
                            /\ q = Len(line) \/ line[q + 1] = "'"
                            /\ \A k \in (SkipSpaces(line, 0) + 2)..q :
                                    line[k] # "'"},
            tokenEnd \in {SkipNonSpaces(line, SkipSpaces(line, 0))}})

\* the loop body without the `continue` of line 356: every line goes to the
\* row pattern
ParseLineNoSkip(str, n, nexus) ==
    One({IF match.found
         THEN One({addTaxon(nexus, taxon) :
                    taxon \in {Taxon(match.name, match.rawSeq, line.range)}})
         ELSE nexus :
            line \in {lineAt(str, n)},
            match \in {RowExec(lineText) : lineText \in {lineAt(str, n).text}}})

\* the body of the loop over the lines startLine..endLine
ParseLine(str, n, nexus) ==
    One({IF textLine = <<>> \/ textLine[1] = "[" \/ textLine = <<";">>
         THEN nexus
         ELSE IF match.found
         THEN One({addTaxon(nexus, taxon) :
                    taxon \in {Taxon(match.name, match.rawSeq, line.range)}})
         ELSE nexus :
            line \in {lineAt(str, n)},
            textLine \in {Trim(lineAt(str, n).text)},
            match \in {RowExec(lineText) : lineText \in {lineAt(str, n).text}}})

RECURSIVE ParseLines(_, _, _, _)
ParseLines(str, n, endLine, nexus) ==
    IF n > endLine THEN nexus
    ELSE One({ParseLines(str, next, endLine, added) :
                next \in {n + 1}, added \in {ParseLine(str, n, nexus)}})

\* lines 347-350: the first and the last line of the loop over the block
MatrixLineSpan(str, matrixMatch) ==
    LET matrixStartOffset ==
            matrixMatch.index + IndexOf(matrixMatch.all, matrixMatch.body)
    IN  [startLine |-> positionAt(str, matrixStartOffset).line,
         endLine |-> positionAt(str, matrixStartOffset
                                     + Len(matrixMatch.body)).line]

\* NexusParser.parse(document)
parse(str) ==
    One({IF ~matrixMatch.found THEN <<>>
         ELSE One({ParseLines(str, span.startLine, span.endLine, <<>>) :
                    span \in {MatrixLineSpan(str, matrixMatch)}}) :
            matrixMatch \in {MatrixExec(str)}})

----------------------------------------------------------------------------
(* validateNexus *)

kwNTAX == <<"N","T","A","X">>
kwNCHAR == <<"N","C","H","A","R">>

NtaxMismatch == "Mismatch: NTAX={0} but MATRIX has {1} taxa."
NcharMismatch == "Mismatch: NCHAR={0} but the longest sequence is {1}."
LengthMismatch == "Sequence length ({0}) does not match NCHAR ({1})."

\* /\bKEYWORD\s*=\s*(\d+)/i tried at offset i
HeaderMatchAt(str, i, kw) ==
    IF WordBoundary(str, i) /\ KeywordAt(str, i, kw)
    THEN One({IF eq < Len(str) /\ str[eq + 1] = "="
              THEN One({IF to > from
                        THEN [found |-> TRUE, index |-> i, end |-> to,
                              digits |-> Substring(str, from, to)]
                        ELSE NoMatch :
                            from \in {SkipSpaces(str, eq + 1)},
                            to \in {SkipDigits(str, SkipSpaces(str, eq + 1))}})
              ELSE NoMatch :
                eq \in {SkipSpaces(str, i + Len(kw))}})
    ELSE NoMatch

\* ntaxRegex.exec(text), ncharRegex.exec(text)
HeaderExec(str, kw) ==
    One({Leftmost({m \in all : m.found}) :
            all \in {{HeaderMatchAt(str, i, kw) : i \in 0..Len(str)}}})

\* null of definedNtax / definedNchar (parseInt of \d+ is never negative)
Null == -1

\* match ? parseInt(match[1]) : null
Defined(match) == IF match.found THEN ParseInt(match.digits) ELSE Null

\* getRangeFromMatch(document, match)
getRangeFromMatch(str, match) ==
    Range(positionAt(str, match.index), positionAt(str, match.end))

\* step 3: the NTAX check
NtaxCheck(str, nexus) ==
    One({IF definedNtax # Null /\ ntax(nexus) # definedNtax
         THEN <<Diagnostic(getRangeFromMatch(str, ntaxMatch), NtaxMismatch,
                           <<definedNtax, ntax(nexus)>>, "Error")>>
         ELSE <<>> :
            ntaxMatch \in {HeaderExec(str, kwNTAX)},
            definedNtax \in {Defined(HeaderExec(str, kwNTAX))}})

\* step 4: the NCHAR check against the longest sequence
NcharCheck(str, nexus) ==
    One({IF definedNchar # Null /\ maxSequenceLength(nexus) # definedNchar
         THEN <<Diagnostic(getRangeFromMatch(str, ncharMatch), NcharMismatch,
                           <<definedNchar, maxSequenceLength(nexus)>>, "Error")>>
         ELSE <<>> :
            ncharMatch \in {HeaderExec(str, kwNCHAR)},
            definedNchar \in {Defined(HeaderExec(str, kwNCHAR))}})

\* step 5: one Warning for every taxon whose length is not NCHAR
RowCheck(str, nexus) ==
    One({IF definedNchar # Null
         THEN One({[k \in 1..Len(off) |->
                      Diagnostic(off[k].lineRange, LengthMismatch,
                                 <<Len(off[k].bases), definedNchar>>,
                                 "Warning")] :
                    off \in {SelectSeq(nexus, LAMBDA taxon :
                                Len(taxon.bases) # definedNchar)}})
         ELSE <<>> :
            definedNchar \in {Defined(HeaderExec(str, kwNCHAR))}})

\* lines 52-114: the local diagnostics list of one pass, or the abort of
\* the pass by the exception of validateComments
Validate(str) ==
    One({IF comments.pc = "threw"
         THEN [threw |-> TRUE, diagnostics |-> <<>>]
         ELSE One({[threw |-> FALSE,
                    diagnostics |-> comments.diagnostics
                                    \o NtaxCheck(str, nexus)
                                    \o NcharCheck(str, nexus)
                                    \o RowCheck(str, nexus)] :
                    nexus \in {parse(str)}}) :
            comments \in {validateComments(str)}})

----------------------------------------------------------------------------
(* The host: documents, the diagnostic collection, the event handlers *)

Docs == {"a.nex", "b.nex", "notes.txt"}

NoEditor == "none"

\* document.languageId
languageId(d) == IF d = "notes.txt" THEN "plaintext" ELSE "nexus"

NoEntry == [has |-> FALSE, diagnostics |-> <<>>]

\* vscode.languages.createDiagnosticCollection('nexus')
createDiagnosticCollection == [d \in Docs |-> NoEntry]

\* collection.clear(): removes the diagnostics of every document
CollectionClear(coll) == [d \in Docs |-> NoEntry]

\* collection.set(document.uri, diagnostics): replaces the entry of the uri
CollectionSet(coll, d, diagnostics) ==
    [coll EXCEPT ![d] = [has |-> TRUE, diagnostics |-> diagnostics]]

NoPass == [document |-> NoEditor, outcome |-> "none", diagnostics |-> <<>>]

\* validateNexus with a diagnostics list that outlives the call: the list of
\* a pass starts from what the document's previous pass left published
validateNexusSticky(d, str, coll) ==
    LET result == Validate(str)
    IN  IF languageId(d) # "nexus"
        THEN [collection |-> coll,
              pass |-> [document |-> d, outcome |-> "skipped",
                        diagnostics |-> <<>>]]
        ELSE IF result.threw
        THEN [collection |-> CollectionClear(coll),
              pass |-> [document |-> d, outcome |-> "threw",
                        diagnostics |-> <<>>]]
        ELSE [collection |-> CollectionSet(CollectionClear(coll), d,
                                coll[d].diagnostics \o result.diagnostics),
              pass |-> [document |-> d, outcome |-> "returned",
                        diagnostics |-> coll[d].diagnostics
                                        \o result.diagnostics]]

\* validateNexus keeping what was published: no clear, and the new list
\* added after the document's old one
validateNexusMerge(d, str, coll) ==
    LET result == Validate(str)
    IN  IF languageId(d) # "nexus"
        THEN [collection |-> coll,
              pass |-> [document |-> d, outcome |-> "skipped",
                        diagnostics |-> <<>>]]
        ELSE IF result.threw
        THEN [collection |-> coll,
              pass |-> [document |-> d, outcome |-> "threw",
                        diagnostics |-> <<>>]]
        ELSE [collection |-> CollectionSet(coll, d,
                                coll[d].diagnostics \o result.diagnostics),
              pass |-> [document |-> d, outcome |-> "returned",
                        diagnostics |-> result.diagnostics]]

\* validateNexus(document, collection, outputChannel) on the document d
\* whose text is str: the collection it leaves and how the call ended
validateNexus(d, str, coll) ==
    LET result == Validate(str)
    IN  IF languageId(d) # "nexus"
        THEN [collection |-> coll,
              pass |-> [document |-> d, outcome |-> "skipped",
                        diagnostics |-> <<>>]]
        ELSE IF result.threw
        THEN [collection |-> CollectionClear(coll),
              pass |-> [document |-> d, outcome |-> "threw",
                        diagnostics |-> <<>>]]
        ELSE [collection |-> CollectionSet(CollectionClear(coll), d,
                                           result.diagnostics),
              pass |-> [document |-> d, outcome |-> "returned",
                        diagnostics |-> result.diagnostics]]

\* the body of activate's onDidChangeActiveTextEditor listener
onDidChangeActiveTextEditor(editor) ==
    /\ activeTextEditor' = editor
    /\ IF editor # NoEditor
       THEN LET call == validateNexus(editor, text[editor], collection)
            IN  collection' = call.collection /\ pass' = call.pass
       ELSE UNCHANGED <<collection, pass>>
    /\ UNCHANGED <<text, vc, nexusData, sc>>

\* the body of activate's onDidChangeTextDocument listener, run by the host
\* after it has replaced the document's text by newText
onDidChangeTextDocument(d, newText) ==
    /\ text' = [text EXCEPT ![d] = newText]
    /\ LET call == validateNexus(d, newText, collection)
       IN  collection' = call.collection /\ pass' = call.pass
    /\ UNCHANGED <<activeTextEditor, vc, nexusData, sc>>

----------------------------------------------------------------------------
(* Spec: the extension under the host's events on small documents *)

HostFragments == {<<"]">>, <<"'", "\n">>}

\* the texts one edit can leave: a fragment typed at the end, or all deleted
Edits(str) ==
    {str \o f : f \in {g \in HostFragments : Len(str) + Len(g) <= MaxHostLen}}
    \cup {<<>>}

ScanIdle == [text |-> <<>>, i |-> 0, stack |-> <<>>, inQuote |-> FALSE,
             diagnostics |-> <<>>, pc |-> "idle"]

NotParsed == [parsed |-> FALSE, taxa |-> <<>>]

CleanIdle == [str |-> <<>>, i |-> 0, clean |-> <<>>, stack |-> 0,
              inQuote |-> FALSE, pc |-> "idle"]

\* activate(context): the collection is created and the active editor's
\* document, if there is one, is validated
activate(editor, texts) ==
    /\ text = texts
    /\ activeTextEditor = editor
    /\ IF editor # NoEditor
       THEN LET call == validateNexus(editor, texts[editor],
                                      createDiagnosticCollection)
            IN  collection = call.collection /\ pass = call.pass
       ELSE collection = createDiagnosticCollection /\ pass = NoPass
    /\ vc = ScanIdle
    /\ nexusData = NotParsed
    /\ sc = CleanIdle

Init == \E editor \in Docs \cup {NoEditor} : activate(editor, [d \in Docs |-> <<>>])

Next ==
    \/ \E editor \in Docs \cup {NoEditor} : onDidChangeActiveTextEditor(editor)
    \/ \E d \in Docs : \E newText \in Edits(text[d]) :
            newText # text[d] /\ onDidChangeTextDocument(d, newText)

Spec == Init /\ [][Next]_vars

----------------------------------------------------------------------------
(* SpecPass: one validation pass over structured NEXUS documents *)

hNTAX == <<"N","T","A","X","=","2","\n">>
hNCHAR == <<"N","C","H","A","R","=","4","\n">>
hBoth == <<"n","t","a","x"," ","=","1"," ","N","C","H","A","R","=","8","\n">>

Headers == {<<>>, hNTAX, hNCHAR, hBoth}

rowA == <<"A"," ","A","C","G","T","\n">>
rowA2 == <<"A"," ","T","T","T","T","\n">>
rowB == <<"B"," ","A","C","[","x","]"," ","G","T","\n">>
rowB2 == <<"B"," ","A","C","\n">>

Rows == {rowA, rowA2, rowB, rowB2}

RECURSIVE Flatten(_)
Flatten(ss) == IF ss = <<>> THEN <<>> ELSE Head(ss) \o Flatten(Tail(ss))

\* no MATRIX block, or MATRIX, up to MaxRows rows and the closing ';'
Bodies ==
    {<<>>} \cup
    {kwMATRIX \o <<"\n">> \o Flatten(rs) \o <<";", "\n">> :
        rs \in UNION {[1..k -> Rows] : k \in 0..MaxRows}}

Tails == {<<>>, <<"'">>, <<"'", "\n">>, <<"]">>, <<"[">>}

\* rows of the blocks below: B ACGT; closes the block on the row's line,
\* 'a b' AC and 'it''s a' ACGT have quoted labels, A AC[x and B GG]TT hold a
\* comment that opens on one row and closes on the next
rowBsemi == <<"B"," ","A","C","G","T",";","\n">>
rowQuoted == <<"'","a"," ","b","'"," ","A","C","\n">>
rowEscaped == <<"'","i","t","'","'","s"," ","a","'"," ","A","C","G","T","\n">>
rowOpen == <<"A"," ","A","C","[","x","\n">>
rowClose == <<"B"," ","G","G","]","T","T","\n">>

\* blocks whose first row shares the keyword's line, whose last row shares
\* the line of the ';', with quoted labels, with a comment over two rows
EdgeBodies ==
    {kwMATRIX \o <<" ">> \o rowA \o <<";", "\n">>,
     kwMATRIX \o <<"\n">> \o rowA \o rowBsemi,
     kwMATRIX \o <<"\n">> \o rowQuoted \o rowEscaped \o <<";", "\n">>,
     kwMATRIX \o <<"\n">> \o rowOpen \o rowClose \o <<";", "\n">>}

\* lines that are no rows: an empty line, a comment-only line that would
\* match the row pattern, a name without a sequence
lineEmpty == <<"\n">>
lineComment == <<"[","c","]"," ","A","C","\n">>
lineNameOnly == <<"A","C","G","T","\n">>

\* blocks with a line that is no row between two rows
SkipBodies ==
    {kwMATRIX \o <<"\n">> \o rowA \o lineEmpty \o rowB2 \o <<";", "\n">>,
     kwMATRIX \o <<"\n">> \o rowA \o lineComment \o rowA2 \o <<";", "\n">>,
     kwMATRIX \o <<"\n">> \o rowA \o lineNameOnly \o rowB2 \o <<";", "\n">>}

PassTexts ==
    {h \o b \o t : h \in Headers,
                   b \in Bodies \cup EdgeBodies \cup SkipBodies,
                   t \in Tails}

InitPass ==
    \E str \in PassTexts :
        activate(NoEditor, [d \in Docs |-> IF d = "a.nex" THEN str ELSE <<>>])

NextPass ==
    \E editor \in Docs \cup {NoEditor} : onDidChangeActiveTextEditor(editor)

SpecPass == InitPass /\ [][NextPass]_vars

----------------------------------------------------------------------------
(* SpecParse: NexusParser.parse applied to the structured documents *)

ParseDocument ==
    /\ ~nexusData.parsed
    /\ nexusData' = [parsed |-> TRUE, taxa |-> parse(text["a.nex"])]
    /\ UNCHANGED <<text, collection, activeTextEditor, pass, vc, sc>>

SpecParse == InitPass /\ [][ParseDocument]_vars

----------------------------------------------------------------------------
(* SpecScan: validateComments run one loop iteration at a time *)

ScanAlphabet == {"'", "[", "]", "\n", "A"}

\* the nested comments of the specification's examples: [[[ ]]] and [[[ ]]
ScanExamples == {<<"[","[","["," ","]","]","]">>, <<"[","[","["," ","]","]">>}

ScanTexts == UNION {[1..k -> ScanAlphabet] : k \in 0..MaxScanLen} \cup ScanExamples

InitScan ==
    /\ \E str \in ScanTexts : vc = ScanStart(str)
    /\ text = [d \in Docs |-> <<>>]
    /\ collection = createDiagnosticCollection
    /\ activeTextEditor = NoEditor
    /\ pass = NoPass
    /\ nexusData = NotParsed
    /\ sc = CleanIdle

ScanStep ==
    /\ vc.pc = "loop" /\ vc.i < Len(vc.text)
    /\ vc' = ScanChar(vc)
    /\ UNCHANGED <<text, collection, activeTextEditor, pass, nexusData, sc>>

ScanQuoteCheck ==
    /\ vc.pc = "loop" /\ vc.i >= Len(vc.text)
    /\ vc' = QuoteCheck(vc)
    /\ UNCHANGED <<text, collection, activeTextEditor, pass, nexusData, sc>>

ScanUnclosedReport ==
    /\ vc.pc = "unclosed"
    /\ vc' = UnclosedReport(vc)
    /\ UNCHANGED <<text, collection, activeTextEditor, pass, nexusData, sc>>

NextScan == ScanStep \/ ScanQuoteCheck \/ ScanUnclosedReport

SpecScan == InitScan /\ [][NextScan]_vars

----------------------------------------------------------------------------
(* SpecClean: Sequence._clean and validateComments run over the same raw   *)
(* string, each one loop iteration at a time                               *)

CleanAlphabet == {"'", "[", "]", " ", "A"}

\* the specification's example: AC[ comment ]GT  TT
CleanExamples ==
    {<<"A","C","["," ","c","o","m","m","e","n","t"," ","]","G","T"," "," ","T","T">>}

CleanTexts ==
    UNION {[1..k -> CleanAlphabet] : k \in 0..MaxCleanLen} \cup CleanExamples

InitClean ==
    /\ \E str \in CleanTexts : sc = CleanStart(str) /\ vc = ScanStart(str)
    /\ text = [d \in Docs |-> <<>>]
    /\ collection = createDiagnosticCollection
    /\ activeTextEditor = NoEditor
    /\ pass = NoPass
    /\ nexusData = NotParsed

CleanStep ==
    /\ sc.pc = "loop" /\ sc.i < Len(sc.str)
    /\ sc' = CleanChar(sc)
    /\ UNCHANGED <<text, collection, activeTextEditor, pass, vc, nexusData>>

CleanReturn ==
    /\ sc.pc = "loop" /\ sc.i >= Len(sc.str)
    /\ sc' = CleanEnd(sc)
    /\ UNCHANGED <<text, collection, activeTextEditor, pass, vc, nexusData>>

NextClean ==
    \/ CleanStep
    \/ CleanReturn
    \/ ScanStep
    \/ ScanQuoteCheck
    \/ ScanUnclosedReport

SpecClean == InitClean /\ [][NextClean]_vars

----------------------------------------------------------------------------
(* Claims *)

\* the diagnostics of a list that carry the given message template
WithTemplate(ds, template) ==
    SelectSeq(ds, LAMBDA d : d.message.template = template)

\* C1: a pass on a nexus document emits exactly one Error anchored at the
\* range of the first NTAX=<digits> match when NTAX is declared and differs
\* from the number of distinct taxon names of the Matrix Model, and no such
\* Error otherwise.
C1_NtaxErrorIffMismatch ==
    pass.outcome \in {"returned", "threw"} =>
        LET str == text[pass.document]
            match == HeaderExec(str, kwNTAX)
            nexus == parse(str)
            names == {nexus[k].name : k \in 1..Len(nexus)}
            emitted == WithTemplate(pass.diagnostics, NtaxMismatch)
        IN  IF match.found /\ ParseInt(match.digits) # Cardinality(names)
            THEN /\ Len(emitted) = 1
                 /\ emitted[1].severity = "Error"
                 /\ emitted[1].range =
                        Range(positionAt(str, match.index),
                              positionAt(str, match.end))
            ELSE emitted = <<>>

\* C2: a pass on a nexus document emits an Error anchored at the range of
\* the first NCHAR=<digits> match when NCHAR is declared and differs from the
\* longest sequence of the Matrix Model (0 without taxa), and no such Error
\* otherwise.
C2_NcharErrorIffMismatch ==
    pass.outcome \in {"returned", "threw"} =>
        LET str == text[pass.document]
            match == HeaderExec(str, kwNCHAR)
            nexus == parse(str)
            longest == IF nexus = <<>> THEN 0
                       ELSE CHOOSE n \in 0..Len(str) :
                              /\ \E k \in 1..Len(nexus) : Len(nexus[k].bases) = n
                              /\ \A k \in 1..Len(nexus) : Len(nexus[k].bases) <= n
            emitted == WithTemplate(pass.diagnostics, NcharMismatch)
        IN  IF match.found /\ ParseInt(match.digits) # longest
            THEN /\ Len(emitted) = 1
                 /\ emitted[1].severity = "Error"
                 /\ emitted[1].range =
                        Range(positionAt(str, match.index),
                              positionAt(str, match.end))
            ELSE emitted = <<>>

\* C3: when NCHAR is declared, a pass emits one Warning for each taxon whose
\* sequence length differs from it, anchored at the taxon's row range, in
\* first-seen taxon order; it emits none for the other taxa and none when
\* NCHAR is not declared.
C3_RowWarnings ==
    pass.outcome \in {"returned", "threw"} =>
        LET str == text[pass.document]
            match == HeaderExec(str, kwNCHAR)
            nexus == parse(str)
            off == IF match.found
                   THEN SelectSeq(nexus, LAMBDA taxon :
                            Len(taxon.bases) # ParseInt(match.digits))
                   ELSE <<>>
            emitted == SelectSeq(pass.diagnostics,
                                 LAMBDA d : d.severity = "Warning")
        IN  /\ Len(emitted) = Len(off)
            /\ \A k \in 1..Len(off) : emitted[k].range = off[k].lineRange

\* C4: a taxon name matched by k rows of the MATRIX block is held once by
\* the Matrix Model, and its Sequence is the concatenation of the k rows'
\* cleaned sequences in document row order; A ACGT then A TTTT give A the
\* sequence ACGTTTTT of length 8.
C4_InterleavedRowsConcatenate ==
    nexusData.parsed =>
        LET str == text["a.nex"]
            matrixMatch == MatrixExec(str)
            span == MatrixLineSpan(str, matrixMatch)
            lines == IF matrixMatch.found
                     THEN [k \in 1..(span.endLine - span.startLine + 1) |->
                             lineAt(str, span.startLine + k - 1).text]
                     ELSE <<>>
            rows == SelectSeq(lines, LAMBDA line :
                        /\ Trim(line) # <<>>
                        /\ Trim(line)[1] # "["
                        /\ Trim(line) # <<";">>
                        /\ RowExec(line).found)
            taxa == nexusData.taxa
            RowsOf(name) == SelectSeq(rows, LAMBDA line : RowExec(line).name = name)
        IN  /\ \A k \in 1..Len(rows) :
                Cardinality({j \in 1..Len(taxa) :
                                taxa[j].name = RowExec(rows[k]).name}) = 1
            /\ \A j \in 1..Len(taxa) :
                /\ RowsOf(taxa[j].name) # <<>>
                /\ taxa[j].bases =
                       Flatten([k \in 1..Len(RowsOf(taxa[j].name)) |->
                                   _clean(RowExec(RowsOf(taxa[j].name)[k]).rawSeq)])
            /\ str = kwMATRIX \o <<"\n">> \o rowA \o rowA2 \o <<";", "\n">> =>
                /\ Len(taxa) = 1
                /\ taxa[1].name = <<"A">>
                /\ taxa[1].bases = <<"A","C","G","T","T","T","T","T">>
                /\ Len(taxa[1].bases) = 8

\* C4 witness: a parsed document in which A ACGT is followed by A TTTT
C4_Witness ==
    /\ nexusData.parsed
    /\ text["a.nex"] = kwMATRIX \o <<"\n">> \o rowA \o rowA2 \o <<";", "\n">>
    /\ Len(nexusData.taxa) = 1

\* C5: a ']' met outside quotes with no '[' open adds exactly one
\* "Unexpected closing bracket" Error covering that character and leaves the
\* stack and the quote flag as they were; once the loop has ended, the open
\* brackets and the quote flag are those of the text without the stray ']'.
C5_StrayClosingBracket ==
    /\ [][(/\ vc.pc = "loop"
           /\ vc.i < Len(vc.text)
           /\ vc.text[vc.i + 1] = "]"
           /\ ~vc.inQuote
           /\ vc.stack = <<>>)
          => /\ vc'.diagnostics =
                    Append(vc.diagnostics,
                           [range |-> Range(positionAt(vc.text, vc.i),
                                            positionAt(vc.text, vc.i + 1)),
                            message |-> [template |-> UnexpectedClosing,
                                         args |-> <<>>],
                            severity |-> "Error"])
             /\ vc'.stack = vc.stack
             /\ vc'.inQuote = vc.inQuote
             /\ vc'.i = vc.i + 1]_vars
    /\ [](vc.pc = "loop" /\ vc.i >= Len(vc.text) =>
            \A k \in 0..(Len(vc.text) - 1) :
                (\E n \in 1..Len(vc.diagnostics) :
                    /\ vc.diagnostics[n].message.template = UnexpectedClosing
                    /\ vc.diagnostics[n].range.start = positionAt(vc.text, k))
                => LET without == Substring(vc.text, 0, k)
                                  \o Substring(vc.text, k + 1, Len(vc.text))
                       other == ScanLoop(ScanStart(without))
                   IN  /\ vc.text[k + 1] = "]"
                       /\ other.inQuote = vc.inQuote
                       /\ Len(other.stack) = Len(vc.stack)
                       /\ \A n \in 1..Len(vc.stack) :
                            other.stack[n] =
                                IF vc.stack[n] > k THEN vc.stack[n] - 1
                                ELSE vc.stack[n]
                       /\ Len(other.diagnostics) = Len(vc.diagnostics) - 1)

\* C5 witness: the scan of ][] has ended with the one Error of the stray ']'
\* and the later pair matched
C5_Witness ==
    /\ vc.pc = "done"
    /\ vc.text = <<"]", "[", "]">>
    /\ Len(vc.diagnostics) = 1
    /\ vc.diagnostics[1].message.template = UnexpectedClosing
    /\ vc.stack = <<>>

\* C6: when validateComments has ended, its "Unclosed comment block" Errors
\* are one for every '[' still open, each anchored at the offset of its own
\* '['; [[[ ]]] yields none and [[[ ]] yields one, at the first '['.
C6_UnclosedPerOpenBracket ==
    vc.pc \in {"done", "threw"} =>
        LET emitted == WithTemplate(vc.diagnostics, UnclosedComment)
        IN  /\ Len(emitted) = Len(vc.stack)
            /\ \A k \in 1..Len(vc.stack) :
                /\ emitted[k].severity = "Error"
                /\ emitted[k].range =
                       Range(positionAt(vc.text, vc.stack[k]),
                             positionAt(vc.text, vc.stack[k] + 1))
            /\ vc.text = <<"[","[","["," ","]","]","]">> => emitted = <<>>
            /\ vc.text = <<"[","[","["," ","]","]">> =>
                /\ Len(emitted) = 1
                /\ emitted[1].range = Range(Position(0, 0), Position(0, 1))

\* C7: when validateComments has ended with the quote flag set, it has
\* emitted exactly one unclosed-quote diagnostic, of severity Warning, on the
\* last character of the document; with the flag clear it has emitted none.
C7_UnclosedQuoteWarning ==
    vc.pc \in {"done", "threw"} =>
        LET emitted == WithTemplate(vc.diagnostics, UnclosedQuote)
            last == Len(vc.text)
        IN  IF vc.inQuote
            THEN /\ Len(emitted) = 1
                 /\ emitted[1].severity = "Warning"
                 /\ emitted[1].range = Range(positionAt(vc.text, last - 1),
                                             positionAt(vc.text, last))
            ELSE emitted = <<>>

\* C8: every call of validateNexus on a nexus document runs to completion
\* and publishes a diagnostic list for the document; none ends by an
\* exception that leaves the collection cleared.
C8_PassAlwaysPublishes ==
    pass.outcome \in {"returned", "threw"} =>
        /\ pass.outcome = "returned"
        /\ collection[pass.document].has

\* C9: a validation pass for one document leaves the published diagnostics
\* of every other document unchanged.
C9_OtherDocumentsKept ==
    [][\A d \in Docs :
        d # pass'.document =>
            collection'[d].diagnostics = collection[d].diagnostics]_vars

\* C10: once a handler has returned from a pass on a nexus document, the
\* entry published for the document is exactly the list that pass computed
\* from the document's current text; an event on a document that is not
\* nexus changes no published diagnostics.
C10_PublishedIsLatestPass ==
    /\ [](pass.outcome = "returned" =>
            /\ collection[pass.document].has
            /\ collection[pass.document].diagnostics = pass.diagnostics
            /\ pass.diagnostics = Validate(text[pass.document]).diagnostics)
    /\ [][\A d \in Docs :
            /\ languageId(d) # "nexus"
            /\ \/ text'[d] # text[d]
               \/ activeTextEditor' = d /\ text' = text
            => collection' = collection]_vars

\* C10 witness: a.nex was edited to ] and then to ]], each edit followed by
\* its pass, and the published list is the two Errors of ]]
C10_Witness ==
    /\ pass = [document |-> "a.nex", outcome |-> "returned",
               diagnostics |-> collection["a.nex"].diagnostics]
    /\ text["a.nex"] = <<"]", "]">>
    /\ Len(collection["a.nex"].diagnostics) = 2

\* the texts the host's edits can give a document
HostTexts ==
    LET Grow[n \in 0..MaxHostLen] ==
            IF n = 0 THEN {<<>>}
            ELSE Grow[n - 1] \cup UNION {Edits(str) : str \in Grow[n - 1]}
    IN  Grow[MaxHostLen]

\* how a pass on a text ends in a fresh extension host
FreshPass(d, str) == validateNexus(d, str, createDiagnosticCollection).pass

C12_EscapedQuotePair ==
    /\ [][(/\ vc' # vc
           /\ vc.pc = "loop"
           /\ vc.i + 1 < Len(vc.text)
           /\ vc.inQuote
           /\ vc.text[vc.i + 1] = "'"
           /\ vc.text[vc.i + 2] = "'")
          => /\ vc'.inQuote = vc.inQuote
             /\ vc'.i = vc.i + 2
             /\ vc'.stack = vc.stack
             /\ vc'.diagnostics = vc.diagnostics]_vars
    /\ [][(/\ sc' # sc
           /\ sc.pc = "loop"
           /\ sc.i + 1 < Len(sc.str)
           /\ sc.inQuote
           /\ sc.str[sc.i + 1] = "'"
           /\ sc.str[sc.i + 2] = "'")
          => /\ sc'.inQuote = sc.inQuote
             /\ sc'.i = sc.i + 2
             /\ sc'.stack = sc.stack
             /\ sc'.clean = IF sc.stack = 0 THEN Append(sc.clean, "'")
                            ELSE sc.clean]_vars

\* C12 witness: both scanners are past the pair of the string [ ' ' ' (a
\* comment opened, then a quote, then the pair); _clean met the pair in quote
\* mode at depth 1 and added nothing, and both flags are still set
C12_Witness ==
    /\ sc.str = <<"[", "'", "'", "'">>
    /\ sc.i = 4 /\ sc.inQuote /\ sc.stack = 1 /\ sc.clean = <<>>
    /\ vc.i = 4 /\ vc.inQuote /\ vc.stack = <<0>>

\* the comment depth of a string without quotes in front of its character
\* k + 1: a '[' opens a level, a ']' closes one if one is open
DepthBefore(str, k) ==
    LET D[n \in 0..k] ==
            IF n = 0 THEN 0
            ELSE IF str[n] = "[" THEN D[n - 1] + 1
            ELSE IF str[n] = "]" /\ D[n - 1] > 0 THEN D[n - 1] - 1
            ELSE D[n - 1]
    IN  D[k]

\* the characters of a string without quotes that lie at depth 0 and are
\* neither a bracket nor white space, in their order
AtDepthZero(str) ==
    LET keep == {k \in 1..Len(str) :
                    /\ str[k] \notin {"[", "]"}
                    /\ ~IsSpace(str[k])
                    /\ DepthBefore(str, k - 1) = 0}
        Pick[n \in 0..Len(str)] ==
            IF n = 0 THEN <<>>
            ELSE IF n \in keep THEN Append(Pick[n - 1], str[n])
            ELSE Pick[n - 1]
    IN  Pick[Len(str)]

\* C13: for a raw string without quote characters, Sequence._clean returns
\* exactly the characters at comment depth 0 in their order, without the
\* brackets and without white space (a nested comment is dropped whole, a ']'
\* at depth 0 is dropped and changes nothing); AC[ comment ]GT  TT gives ACGTTT.
C13_CleanKeepsDepthZero ==
    (sc.pc = "done" /\ "'" \notin Elems(sc.str)) =>
        /\ sc.clean = AtDepthZero(sc.str)
        /\ sc.str \in CleanExamples =>
                sc.clean = <<"A", "C", "G", "T", "T", "T">>

\* C13 witness: _clean has returned ACGTTT for AC[ comment ]GT  TT
C13_Witness ==
    /\ sc.pc = "done"
    /\ sc.str \in CleanExamples
    /\ sc.clean = <<"A", "C", "G", "T", "T", "T">>

\* the offsets of a string that lie inside a quoted span, the delimiting
\* quotes excluded: a ' opens a span, '' inside a span is an escaped quote,
\* a single ' closes the span
InsideQuotes(str) ==
    LET Q[n \in 0..Len(str)] ==
            IF n = 0 THEN [open |-> FALSE, escaped |-> FALSE, inside |-> {}]
            ELSE One({
                IF prev.escaped
                THEN [prev EXCEPT !.escaped = FALSE,
                                  !.inside = @ \cup {n - 1}]
                ELSE IF str[n] # "'"
                THEN [prev EXCEPT !.inside = IF prev.open THEN @ \cup {n - 1}
                                             ELSE @]
                ELSE IF prev.open /\ n < Len(str) /\ str[n + 1] = "'"
                THEN [prev EXCEPT !.escaped = TRUE,
                                  !.inside = @ \cup {n - 1}]
                ELSE [prev EXCEPT !.open = ~prev.open] :
                    prev \in {Q[n - 1]}})
    IN  Q[Len(str)].inside

\* the brackets outside quotes are balanced: no prefix closes more than it
\* opens, and the whole string closes all it opens
OutsideBalanced(str) ==
    LET Count(ch, n) ==
            Cardinality({k \in 0..(n - 1) \ InsideQuotes(str) : str[k + 1] = ch})
    IN  /\ \A n \in 0..Len(str) : Count("]", n) <= Count("[", n)
        /\ Count("]", Len(str)) = Count("[", Len(str))

\* C14: brackets inside a quoted span are data: a loop iteration at a
\* bracket inside quotes changes neither the open-bracket stack nor the
\* diagnostics, and for a text whose brackets outside quotes are balanced
\* validateComments ends without any unexpected-closing or unclosed-comment
\* diagnostic and with an empty stack.
C14_QuotedBracketsAreData ==
    /\ [][(/\ vc' # vc
           /\ vc.pc = "loop"
           /\ vc.i < Len(vc.text)
           /\ vc.text[vc.i + 1] \in {"[", "]"}
           /\ vc.i \in InsideQuotes(vc.text))
          => /\ vc'.stack = vc.stack
             /\ vc'.diagnostics = vc.diagnostics
             /\ vc'.inQuote = vc.inQuote]_vars
    /\ []((vc.pc \in {"done", "threw"} /\ OutsideBalanced(vc.text))
            => /\ WithTemplate(vc.diagnostics, UnexpectedClosing) = <<>>
               /\ WithTemplate(vc.diagnostics, UnclosedComment) = <<>>
               /\ vc.stack = <<>>)

\* C14 witness: the scan of the quoted span holding ] and [ has ended without
\* a diagnostic
C14_Witness ==
    /\ vc.pc = "done"
    /\ vc.text = <<"'", "]", "[", "'">>
    /\ vc.diagnostics = <<>>
    /\ vc.stack = <<>>

\* C15: a pass over a document without a MATRIX ... ; block skips the count
\* cross-checks: it emits no NTAX-mismatch Error and no NCHAR-mismatch Error,
\* whatever NTAX and NCHAR declare.
C15_NoMatrixNoCountErrors ==
    (/\ pass.outcome \in {"returned", "threw"}
     /\ ~MatrixExec(text[pass.document]).found)
        => /\ WithTemplate(pass.diagnostics, NtaxMismatch) = <<>>
           /\ WithTemplate(pass.diagnostics, NcharMismatch) = <<>>

\* the Matrix Model as names and sequences, without the line ranges
NamesAndBases(nexus) ==
    [k \in 1..Len(nexus) |-> [name |-> nexus[k].name, bases |-> nexus[k].bases]]

\* the Matrix Model of the block body alone: the body captured between the
\* keyword and the first ';' read as a text of its own
BodyModel(str) ==
    LET matrixMatch == MatrixExec(str)
        body == matrixMatch.body
    IN  IF ~matrixMatch.found THEN <<>>
        ELSE ParseLines(body, 0, positionAt(body, Len(body)).line, <<>>)

\* C16: only the text of the block body, strictly between the MATRIX keyword
\* and the first following ';', contributes to the Matrix Model: the names
\* and sequences are those of the body's lines alone; a last row B ACGT;
\* gives B the length 4, and MATRIX A ACGT followed by ; gives the single
\* taxon A of length 4.
C16_OnlyBodyContributes ==
    nexusData.parsed =>
        LET str == text["a.nex"]
            taxa == nexusData.taxa
        IN  /\ NamesAndBases(taxa) = NamesAndBases(BodyModel(str))
            /\ str = kwMATRIX \o <<"\n">> \o rowA \o rowBsemi =>
                    /\ Len(taxa) = 2
                    /\ taxa[2].name = <<"B">>
                    /\ Len(taxa[2].bases) = 4
            /\ str = kwMATRIX \o <<" ">> \o rowA \o <<";", "\n">> =>
                    /\ Len(taxa) = 1
                    /\ taxa[1].name = <<"A">>
                    /\ Len(taxa[1].bases) = 4

\* the offsets of a string that belong to a bracket comment, by the scan
\* with a nested depth and a quote flag run over the whole string: the
\* brackets of a comment and all between them
CommentOffsets(str) ==
    LET C[n \in 0..Len(str)] ==
            IF n = 0
            THEN [depth |-> 0, open |-> FALSE, escaped |-> FALSE, inside |-> {}]
            ELSE One({
                IF prev.escaped
                THEN [prev EXCEPT !.escaped = FALSE,
                                  !.inside = IF prev.depth > 0
                                             THEN @ \cup {n - 1} ELSE @]
                ELSE IF str[n] = "'"
                THEN IF prev.open /\ n < Len(str) /\ str[n + 1] = "'"
                     THEN [prev EXCEPT !.escaped = TRUE,
                                       !.inside = IF prev.depth > 0
                                                  THEN @ \cup {n - 1} ELSE @]
                     ELSE [prev EXCEPT !.open = ~prev.open,
                                       !.inside = IF prev.depth > 0
                                                  THEN @ \cup {n - 1} ELSE @]
                ELSE IF ~prev.open /\ str[n] = "["
                THEN [prev EXCEPT !.depth = @ + 1, !.inside = @ \cup {n - 1}]
                ELSE IF ~prev.open /\ str[n] = "]" /\ prev.depth > 0
                THEN [prev EXCEPT !.depth = @ - 1, !.inside = @ \cup {n - 1}]
                ELSE [prev EXCEPT !.inside = IF prev.depth > 0
                                             THEN @ \cup {n - 1} ELSE @] :
                    prev \in {C[n - 1]}})
    IN  C[Len(str)].inside

\* the document with the comments of its MATRIX block blanked: every
\* character of a comment of the block body but a line break is a space
WithoutBlockComments(str) ==
    LET matrixMatch == MatrixExec(str)
        start == SkipSpaces(str, matrixMatch.index + Len(kwMATRIX))
        inside == CommentOffsets(matrixMatch.body)
    IN  IF ~matrixMatch.found THEN str
        ELSE [k \in 1..Len(str) |->
                IF (k - 1 - start) \in inside /\ str[k] # "\n" THEN " "
                ELSE str[k]]

\* C17: no character inside a bracket comment of the MATRIX block, by the
\* nested-depth scan over the text of the block, is in a taxon's Sequence or
\* counted in its length, also when the comment opens on one row and closes
\* on a later line: the sequences are those of the document with the block's
\* comments blanked; and no Sequence contains white space.
C17_NoCommentTextInSequences ==
    nexusData.parsed =>
        LET taxa == nexusData.taxa
            blanked == parse(WithoutBlockComments(text["a.nex"]))
        IN  /\ [k \in 1..Len(taxa) |-> taxa[k].bases]
                    = [k \in 1..Len(blanked) |-> blanked[k].bases]
            /\ \A k \in 1..Len(taxa) :
                    \A n \in 1..Len(taxa[k].bases) : ~IsSpace(taxa[k].bases[n])

\* C18: the output of Sequence._clean holds no structural quote: a ' that
\* opens or closes a quoted span is not in the output and not counted; the
\* output's ' characters are one for each escaped pair '' met inside a quoted
\* span at comment depth 0.
C18_NoStructuralQuoteInOutput ==
    sc.pc = "done" =>
        LET kept == {n \in 1..Len(sc.clean) : sc.clean[n] = "'"}
            paired == {k \in InsideQuotes(sc.str) \ CommentOffsets(sc.str) :
                            sc.str[k + 1] = "'"}
        IN  2 * Cardinality(kept) = Cardinality(paired)

\* the physical lines startLine..endLine of the document's MATRIX block
BlockLines(str) ==
    LET matrixMatch == MatrixExec(str)
        span == MatrixLineSpan(str, matrixMatch)
    IN  IF matrixMatch.found
        THEN [k \in 1..(span.endLine - span.startLine + 1) |->
                lineAt(str, span.startLine + k - 1).text]
        ELSE <<>>

\* a row that starts with a single-quoted label: the label's content with
\* every escaped pair '' decoded to one ', and the text after the closing
\* quote; found is FALSE when the line does not start with a closed label
\* followed by white space
QuotedRow(line) ==
    LET row == Substring(line, SkipSpaces(line, 0), Len(line))
        closings == {k \in 1..(Len(row) - 1) :
                        row[k + 1] = "'" /\ k \notin InsideQuotes(row)}
        closing == Min(closings)
        label == Substring(row, 1, closing)
        Decode[n \in 0..Len(label)] ==
            IF n = 0 THEN <<>>
            ELSE IF label[n] = "'"
                    /\ Cardinality({m \in 1..n : label[m] = "'"}) % 2 = 0
            THEN Decode[n - 1]
            ELSE Append(Decode[n - 1], label[n])
    IN  IF /\ row # <<>>
           /\ row[1] = "'"
           /\ closings # {}
           /\ closing + 1 < Len(row)
           /\ IsSpace(row[closing + 2])
        THEN [found |-> TRUE, name |-> Decode[Len(label)],
              rest |-> Substring(row, closing + 1, Len(row))]
        ELSE NoMatch

\* C19: a matrix row whose name is a single-quoted label gives a Taxon
\* whose name is the label's content without the delimiting quotes and with
\* every '' decoded to ', and whose Sequence is built from the text after the
\* closing quote only; 'it''s a' ACGT gives the name it's a and length 4.
C19_QuotedLabelDecoded ==
    nexusData.parsed =>
        LET lines == BlockLines(text["a.nex"])
            taxa == nexusData.taxa
        IN  \A k \in 1..Len(lines) :
                QuotedRow(lines[k]).found =>
                    \E j \in 1..Len(taxa) :
                        /\ taxa[j].name = QuotedRow(lines[k]).name
                        /\ taxa[j].bases = _clean(QuotedRow(lines[k]).rest)

\* the numbers of the block's lines that are rows of the taxon called name
RowLinesOf(str, name) ==
    LET matrixMatch == MatrixExec(str)
        span == MatrixLineSpan(str, matrixMatch)
    IN  IF ~matrixMatch.found THEN {}
        ELSE {n \in span.startLine..span.endLine :
                LET line == lineAt(str, n).text
                IN  /\ Trim(line) # <<>>
                    /\ Trim(line)[1] # "["
                    /\ Trim(line) # <<";">>
                    /\ RowExec(line).found
                    /\ RowExec(line).name = name}

\* the length-mismatch Warnings of the last pass, each with the taxon it is
\* about (the Warnings follow the taxa in first-seen order) and the numbers
\* of the taxon's row lines, for the taxa matched by several rows
InterleavedWarnings ==
    LET str == text[pass.document]
        match == HeaderExec(str, kwNCHAR)
        nexus == parse(str)
        off == IF match.found
               THEN SelectSeq(nexus, LAMBDA taxon :
                        Len(taxon.bases) # ParseInt(match.digits))
               ELSE <<>>
        emitted == WithTemplate(pass.diagnostics, LengthMismatch)
    IN  {[range |-> emitted[k].range, rows |-> RowLinesOf(str, off[k].name)] :
            k \in {j \in 1..Len(emitted) :
                        /\ j <= Len(off)
                        /\ Cardinality(RowLinesOf(str, off[j].name)) > 1}}

\* C20 as stated: the Warning of a taxon matched by several rows of an
\* interleaved matrix is anchored at the line range of the last row that
\* appended to it.
C20_WarningAtLastRow ==
    pass.outcome \in {"returned", "threw"} =>
        \A w \in InterleavedWarnings :
            w.range = lineAt(text[pass.document], Max(w.rows)).range

\* C20 amended: the Warning of a taxon matched by several rows of an
\* interleaved matrix is anchored at the line range of the taxon's first
\* row; the rows that append to it leave the range as it is.
C20_WarningAtFirstRow ==
    pass.outcome \in {"returned", "threw"} =>
        \A w \in InterleavedWarnings :
            w.range = lineAt(text[pass.document], Min(w.rows)).range

\* C20 witness: NCHAR=4 with the rows A ACGT and A TTTT: the pass has
\* returned the Warning of A (length 8) on line 2, the line of A ACGT
C20_Witness ==
    /\ pass.outcome = "returned"
    /\ text[pass.document] =
            hNCHAR \o kwMATRIX \o <<"\n">> \o rowA \o rowA2 \o <<";", "\n">>
    /\ Cardinality(InterleavedWarnings) = 1
    /\ \A w \in InterleavedWarnings :
            /\ w.rows = {2, 3}
            /\ w.range = Range(Position(2, 0), Position(2, 6))

\* the numbers of the lines the parser visits that lie between the keyword
\* and the ';' with their line break and are no rows: empty after trimming,
\* starting with '[', a bare ';', or not matching the row pattern
SkippedBlockLines(str) ==
    LET matrixMatch == MatrixExec(str)
        span == MatrixLineSpan(str, matrixMatch)
        semi == matrixMatch.index + Len(matrixMatch.all) - 1
    IN  IF ~matrixMatch.found THEN {}
        ELSE {n \in span.startLine..span.endLine :
                LET line == lineAt(str, n).text
                IN  /\ LineStart(str, n) >= matrixMatch.index + Len(kwMATRIX)
                    /\ LineStart(str, n) + Len(line) < semi
                    /\ \/ Trim(line) = <<>>
                       \/ Trim(line)[1] = "["
                       \/ Trim(line) = <<";">>
                       \/ ~RowExec(line).found}

\* the document without its line n and that line's break
WithoutLine(str, n) ==
    Substring(str, 0, LineStart(str, n))
        \o Substring(str, LineStart(str, n) + Len(lineAt(str, n).text) + 1,
                      Len(str))

\* a range of the document without line n, as a range of the document
AfterLine(range, n) ==
    LET Down(pos) == IF pos.line >= n
                     THEN Position(pos.line + 1, pos.character)
                     ELSE pos
    IN  Range(Down(range.start), Down(range.end))

\* C21: a line of the MATRIX block that is empty after trimming, starts with
\* '[', is a bare ';' or does not match the row pattern is inert: the Matrix
\* Model (names, sequences and, one line further down after it, row ranges)
\* and the diagnostics of a pass are those of the document without the line,
\* so the line adds no taxon, changes no Sequence and causes no diagnostic.
C21_SkippedLinesAreInert ==
    nexusData.parsed =>
        LET str == text["a.nex"]
            taxa == nexusData.taxa
        IN  \A n \in SkippedBlockLines(str) :
                LET other == parse(WithoutLine(str, n))
                    pass1 == Validate(str)
                    pass2 == Validate(WithoutLine(str, n))
                IN  /\ NamesAndBases(taxa) = NamesAndBases(other)
                    /\ \A k \in 1..Len(taxa) :
                            taxa[k].lineRange = AfterLine(other[k].lineRange, n)
                    /\ pass1.threw = pass2.threw
                    /\ pass1.diagnostics =
                            [k \in 1..Len(pass2.diagnostics) |->
                                [pass2.diagnostics[k] EXCEPT
                                    !.range = AfterLine(@, n)]]

\* C21 witness: the comment-only line [c] AC stands between A ACGT and
\* A TTTT, and the parsed model is the single taxon A with ACGTTTTT
C21_Witness ==
    /\ nexusData.parsed
    /\ text["a.nex"] = kwMATRIX \o <<"\n">> \o rowA \o lineComment \o rowA2
                            \o <<";", "\n">>
    /\ SkippedBlockLines(text["a.nex"]) = {2}
    /\ NamesAndBases(nexusData.taxa) =
            <<[name |-> <<"A">>,
               bases |-> <<"A","C","G","T","T","T","T","T">>]>>

\* C22: the message of each per-taxon length-mismatch Warning names the
\* taxon it is about and contains the taxon's sequence length and the
\* declared NCHAR: the three are among the values interpolated into it.
C22_WarningNamesTaxon ==
    pass.outcome \in {"returned", "threw"} =>
        LET str == text[pass.document]
            match == HeaderExec(str, kwNCHAR)
            nexus == parse(str)
            off == IF match.found
                   THEN SelectSeq(nexus, LAMBDA taxon :
                            Len(taxon.bases) # ParseInt(match.digits))
                   ELSE <<>>
            emitted == WithTemplate(pass.diagnostics, LengthMismatch)
        IN  \A k \in 1..Len(emitted) :
                k <= Len(off) =>
                    /\ Len(off[k].bases) \in Elems(emitted[k].message.args)
                    /\ ParseInt(match.digits) \in Elems(emitted[k].message.args)
                    /\ ToString(off[k].name) \in
                            {ToString(emitted[k].message.args[n]) :
                                n \in 1..Len(emitted[k].message.args)}

\* C23: validateComments and Sequence._clean are the same state machine over
\* a string: whenever both have consumed the same characters their in-quote
\* flags are equal and the size of validateComments' open-bracket stack is
\* _clean's depth counter, and from there each moves to the offset the other
\* moves to, so they stay in lockstep after every character (escaped quotes,
\* a stray ']' at depth 0 and quotes inside comments included).
C23_ScannersInLockstep ==
    /\ [](vc.text = sc.str /\ vc.i = sc.i
            => /\ vc.inQuote = sc.inQuote
               /\ Len(vc.stack) = sc.stack)
    /\ [][(/\ vc.text = sc.str
           /\ vc.i = sc.i
           /\ vc.pc = "loop"
           /\ sc.pc = "loop"
           /\ vc.i < Len(vc.text))
          => /\ vc' # vc => vc'.i = CleanChar(sc).i
             /\ sc' # sc => sc'.i = ScanChar(vc).i]_vars

\* C23 witness: both scanners have consumed ][' (a stray ']' at depth 0,
\* then a comment with a quote inside) and agree on flag set and depth 1
C23_Witness ==
    /\ vc.text = <<"]", "[", "'">>
    /\ sc.str = vc.text
    /\ vc.pc = "loop" /\ sc.pc = "loop"
    /\ vc.i = 3 /\ sc.i = 3
    /\ vc.inQuote /\ sc.inQuote
    /\ Len(vc.stack) = 1 /\ sc.stack = 1

====
